---- MODULE Spec2Model ----
(***************************************************************************)
(* AutoThings: the detection-and-decision loop of automation_tool.         *)
(*   AutomationEngine (automation_engine.py): worker thread, stop/pause    *)
(*   events, the cycle evaluate -> publish -> trades -> collect -> refresh *)
(*   DetectionManager (detection.py): evaluate_trade / evaluate_all,       *)
(*   last_frames; ScreenGrabber._bounded_region, ColorDetector.red_ratio,  *)
(*   TemplateMatcher.match with its cache                                  *)
(*   ClickExecutor (clicker.py): click, which may raise                    *)
(* Time is counted in whole units; a ratio and a template score are        *)
(* integers on the scale of their thresholds.                              *)
(***************************************************************************)
EXTENDS Integers, Sequences, FiniteSets, TLC

\* Bounds of the model.
NTrades == 2
MaxTime == 3
MaxThreads == 2
MaxCoord == 2
MaxDim == 2
MaxPixels == 2
\* calls of reload_config after the controller's construction
MaxReloads == 2

VARIABLES
  timing,           \* config.timing: collect_interval, refresh_interval
  thread,           \* self._thread: 0 is None, else the id of the last worker created
  stop_event,       \* self._stop_event.is_set()
  pause_event,      \* self._pause_event.is_set(): TRUE is unpaused
  last_statuses,    \* self._last_statuses
  last_collect_ts,  \* self._last_collect_ts
  last_refresh_ts,  \* self._last_refresh_ts
  pc,               \* position of each worker thread in _run_loop
  statuses,         \* _run_loop's local `statuses`, per worker
  click_performed,  \* _run_loop's local `click_performed`, per worker
  ev,               \* what the worker did in its cycle in flight: evaluation, publish, click calls
  now,              \* time.time()
  ctl,              \* position of the controlling thread: idle, or the method it is in
  stops,            \* stop() calls completed in succession (capped at 2)
  join_timed_out,   \* whether the join of the last completed stop() timed out
  eval_obs,         \* evaluate_all called directly: what the screen showed
  eval_out,         \* evaluate_all called directly: what it returned
  last_frames,      \* DetectionManager._last_frames: the last frame grabbed for each trade
  reader_list,      \* the list a reader got from the `statuses` property, as it is now
  reader_alias,     \* whether that list is the object self._last_statuses refers to
  frames_view,      \* the map an observer got from last_frames(), as it is now
  frames_alias,     \* whether that map is the object DetectionManager._last_frames
  tm_cache,         \* TemplateMatcher._cache: name -> (image, threshold)
  fn_in,            \* a detection function called directly: the call and its arguments
  fn_out,           \* a detection function called directly: what came of the call
  toggle,           \* the toggle_pause calls of the hotkey thread and of the UI thread
  controller        \* AutomationController: _config, _engine, _hotkeys, reload_config's local

engine_vars == <<thread, stop_event, pause_event, last_statuses, last_collect_ts, last_refresh_ts>>
worker_vars == <<pc, statuses, click_performed, ev>>
ctl_vars == <<ctl, stops, join_timed_out>>
eval_vars == <<eval_obs, eval_out>>
observer_vars == <<reader_list, reader_alias, frames_view, frames_alias>>
det_vars == <<tm_cache, fn_in, fn_out>>
rest_vars == <<last_frames, observer_vars, det_vars>>
app_vars == <<toggle, controller>>
vars == <<timing, engine_vars, worker_vars, now, ctl_vars, eval_vars, rest_vars, app_vars>>

Threads == 1..MaxThreads

\* Optional[T]: None, or a value.
None == {}
Some(x) == {x}

Max(a, b) == IF a >= b THEN a ELSE b
Min(a, b) == IF a <= b THEN a ELSE b

(***************************************************************************)
(* Configuration (config_loader.py)                                        *)
(***************************************************************************)

\* The trade definitions: trade 1 has both templates, trade 2 only the gray one,
\* a further trade only the start one.
trade_config(i) ==
  [name |-> i,
   start_template |-> IF i % 2 = 1 THEN Some("start") ELSE None,
   start_gray_template |-> IF i <= 2 THEN Some("gray") ELSE None,
   red_ratio_threshold |-> 1]

trades == [i \in 1..NTrades |-> trade_config(i)]

\* config.templates: name -> threshold
templates == [n \in {"start", "gray"} |-> 1]

\* TimingConfig values the model runs under: (collect_interval, refresh_interval)
Timings ==
  {[collect_interval |-> -1, refresh_interval |-> 1],
   [collect_interval |-> 0, refresh_interval |-> 0],
   [collect_interval |-> 1, refresh_interval |-> 0],
   [collect_interval |-> 1, refresh_interval |-> 1]}

(***************************************************************************)
(* Detection (detection.py)                                                *)
(***************************************************************************)

\* What the screen shows of one trade when it is evaluated: whether the grab
\* returns, the fraction of red pixels, and for each template whether its load
\* and match return and with which maximal correlation.
MatchObs(Scores) ==
  {[raises |-> TRUE, max_val |-> 0]} \cup {[raises |-> FALSE, max_val |-> v] : v \in Scores}

NoMatch == [raises |-> FALSE, max_val |-> 0]

\* a grab that raises shows nothing else
TradeObs(i, Ratios, Scores, Grabs) ==
  {[grab_ok |-> FALSE, ratio |-> 0, act |-> NoMatch, dis |-> NoMatch] : g \in Grabs \ {TRUE}}
  \cup
  {[grab_ok |-> g, ratio |-> r, act |-> a, dis |-> d] :
     g \in Grabs \ {FALSE}, r \in Ratios,
     a \in IF trade_config(i).start_template # None THEN MatchObs(Scores) ELSE {NoMatch},
     d \in IF trade_config(i).start_gray_template # None THEN MatchObs(Scores) ELSE {NoMatch}}

RECURSIVE ObsSeqs(_, _, _, _)
ObsSeqs(n, Ratios, Scores, Grabs) ==
  IF n = 0 THEN {<<>>}
  ELSE {Append(s, o) : s \in ObsSeqs(n - 1, Ratios, Scores, Grabs),
                       o \in TradeObs(n, Ratios, Scores, Grabs)}

TradeStatus(name, red_ratio, has_red_gem, start_active, start_disabled, template_score) ==
  [name |-> name, red_ratio |-> red_ratio, has_red_gem |-> has_red_gem,
   start_active |-> start_active, start_disabled |-> start_disabled,
   template_score |-> template_score]

\* TemplateMatcher.is_configured of a matcher made with the templates tmpl
is_configured_of(tmpl) == DOMAIN tmpl # {}

is_configured == is_configured_of(templates)

\* TemplateMatcher.match on a frame that holds the template: (matched, score)
match_of(tmpl, m, template_name) == <<m.max_val >= tmpl[template_name], m.max_val>>

match(m, template_name) == match_of(templates, m, template_name)

\* the name an optional template name holds
name_of(opt) == CHOOSE n \in opt : TRUE

Raised == [raised |-> TRUE, status |-> TradeStatus(0, 0, FALSE, None, None, None)]

\* `score or 0.0`
or_zero(score) == IF score = None \/ score = Some(0) THEN 0 ELSE CHOOSE v \in score : TRUE

\* a name that is not in the templates raises KeyError in _load_template
Unknown(tmpl, opt) == opt # None /\ name_of(opt) \notin DOMAIN tmpl

evaluate_trade_false_flags(tmpl, trade, o) ==
  LET useA == trade.start_template # None /\ is_configured_of(tmpl)
      useD == trade.start_gray_template # None /\ is_configured_of(tmpl)
  IN IF ~o.grab_ok THEN Raised
     ELSE IF useA /\ (o.act.raises \/ Unknown(tmpl, trade.start_template)) THEN Raised
     ELSE IF useD /\ (o.dis.raises \/ Unknown(tmpl, trade.start_gray_template)) THEN Raised
     ELSE
       LET ratio == o.ratio
           has_red == ratio >= trade.red_ratio_threshold
           a == match_of(tmpl, o.act, name_of(trade.start_template))
           d == match_of(tmpl, o.dis, name_of(trade.start_gray_template))
           start_active == IF useA THEN Some(a[1]) ELSE Some(FALSE)
           score1 == IF useA THEN Some(a[2]) ELSE None
           start_disabled == IF useD THEN Some(d[1]) ELSE Some(FALSE)
           score == IF useD THEN Some(Max(or_zero(score1), d[2])) ELSE score1
       IN [raised |-> FALSE,
           status |-> TradeStatus(trade.name, ratio, has_red, start_active, start_disabled, score)]

\* DetectionManager.evaluate_trade of a manager whose matcher is made with tmpl
evaluate_trade_of(tmpl, trade, o) ==
  LET useA == trade.start_template # None /\ is_configured_of(tmpl)
      useD == trade.start_gray_template # None /\ is_configured_of(tmpl)
  IN IF ~o.grab_ok THEN Raised
     ELSE IF useA /\ (o.act.raises \/ Unknown(tmpl, trade.start_template)) THEN Raised
     ELSE IF useD /\ (o.dis.raises \/ Unknown(tmpl, trade.start_gray_template)) THEN Raised
     ELSE
       LET ratio == o.ratio
           has_red == ratio >= trade.red_ratio_threshold
           a == match_of(tmpl, o.act, name_of(trade.start_template))
           d == match_of(tmpl, o.dis, name_of(trade.start_gray_template))
           start_active == IF useA THEN Some(a[1]) ELSE None
           score1 == IF useA THEN Some(a[2]) ELSE None
           start_disabled == IF useD THEN Some(d[1]) ELSE None
           score == IF useD THEN Some(Max(or_zero(score1), d[2])) ELSE score1
       IN [raised |-> FALSE,
           status |-> TradeStatus(trade.name, ratio, has_red, start_active, start_disabled, score)]

\* the same under config.templates
evaluate_trade(trade, o) == evaluate_trade_of(templates, trade, o)

neutral_status(trade) == TradeStatus(trade.name, 0, FALSE, None, None, None)

RECURSIVE eval_loop_skip(_, _, _)
eval_loop_skip(i, acc, obs) ==
  IF i > Len(trades) THEN acc
  ELSE LET r == evaluate_trade(trades[i], obs[i])
       IN eval_loop_skip(i + 1, IF r.raised THEN acc ELSE Append(acc, r.status), obs)

RECURSIVE eval_loop(_, _, _)
eval_loop(i, acc, obs) ==
  IF i > Len(trades) THEN acc
  ELSE LET r == evaluate_trade(trades[i], obs[i])
           status == IF r.raised THEN neutral_status(trades[i]) ELSE r.status
       IN eval_loop(i + 1, Append(acc, status), obs)

evaluate_all(obs) == eval_loop(1, <<>>, obs)

\* The frame a grab returns, told apart by the red it shows
frame_of(o) == o.ratio

\* evaluate_trade's `frame = self._grabber.grab(trade.region)`, for each trade:
\* the frame, or None where the grab raises
grabbed(obs) == [i \in 1..Len(obs) |-> IF obs[i].grab_ok THEN Some(frame_of(obs[i])) ELSE None]

\* evaluate_trade's `self._last_frames[trade.name] = frame`, for each trade
store_frames(frames, g) ==
  [i \in DOMAIN frames |-> IF i \in DOMAIN g /\ g[i] # None THEN g[i] ELSE frames[i]]

\* One call of evaluate_all: the statuses it returns and the frames it grabbed
evaluation(obs) == [statuses |-> evaluate_all(obs), frames |-> grabbed(obs)]

(***************************************************************************)
(* ScreenGrabber (detection.py)                                            *)
(***************************************************************************)

Region(left, top, width, height) ==
  [left |-> left, top |-> top, width |-> width, height |-> height]

\* The monitors a grabber is made for: of positive size, the origin at or left of 0
Monitors ==
  {Region(l, 0, w, h) : l \in {-1, 0}, w \in 1..MaxCoord, h \in 1..MaxCoord}

\* The regions asked for: anywhere, of any size, none and negative included
Regions ==
  {Region(l, t, w, h) : l \in -MaxCoord..MaxCoord, t \in -MaxCoord..MaxCoord,
                        w \in -1..MaxCoord, h \in -1..MaxCoord}

bounded_region_nofloor(monitor, region) ==
  LET left == Max(monitor.left, region.left)
      top == Max(monitor.top, region.top)
      right == Min(monitor.left + monitor.width, region.left + region.width)
      bottom == Min(monitor.top + monitor.height, region.top + region.height)
  IN Region(left, top, right - left, bottom - top)

\* ScreenGrabber._bounded_region
bounded_region(monitor, region) ==
  LET left == Max(monitor.left, region.left)
      top == Max(monitor.top, region.top)
      right == Min(monitor.left + monitor.width, region.left + region.width)
      bottom == Min(monitor.top + monitor.height, region.top + region.height)
      width == Max(1, right - left)
      height == Max(1, bottom - top)
  IN Region(left, top, width, height)

(***************************************************************************)
(* ColorDetector (detection.py)                                            *)
(***************************************************************************)

\* A BGR pixel, each channel dark or full; an image is the sequence of its
\* pixels, row after row, and the empty image has none.
Pixels == {0, 255} \X {0, 255} \X {0, 255}

RECURSIVE ImagesOf(_)
ImagesOf(n) ==
  IF n = 0 THEN {<<>>} ELSE {Append(img, p) : img \in ImagesOf(n - 1), p \in Pixels}

Images == UNION {ImagesOf(n) : n \in 0..MaxPixels}

\* config.hsv_ranges entries: hue from 0 or 100 up to 40 or 179, saturation from
\* 0 or 100, any value
HSVRanges ==
  {[lower |-> <<hl, sl, 0>>, upper |-> <<hu, 255, 255>>] :
     hl \in {0, 100}, hu \in {40, 179}, sl \in {0, 100}}

\* cv2.cvtColor(frame_bgr, cv2.COLOR_BGR2HSV) of one 8-bit pixel: H in 0..179
\* (degrees halved), S and V in 0..255
bgr2hsv(p) ==
  LET b == p[1]
      g == p[2]
      r == p[3]
      v == Max(b, Max(g, r))
      diff == v - Min(b, Min(g, r))
      sat == IF v = 0 THEN 0 ELSE (255 * diff) \div v
      deg == IF diff = 0 THEN 0
             ELSE IF v = r THEN (60 * (g - b)) \div diff
             ELSE IF v = g THEN 120 + (60 * (b - r)) \div diff
             ELSE 240 + (60 * (r - g)) \div diff
      hue == IF deg < 0 THEN deg + 360 ELSE deg
  IN <<hue \div 2, sat, v>>

\* cv2.inRange(hsv, lower, upper) at one pixel
in_range(hsv, hsv_range) ==
  \A k \in 1..3 : hsv_range.lower[k] <= hsv[k] /\ hsv[k] <= hsv_range.upper[k]

\* the mask after the loop over the ranges: the pixels some range holds
mask_of(image, ranges) ==
  {k \in DOMAIN image : \E j \in DOMAIN ranges : in_range(bgr2hsv(image[k]), ranges[j])}

\* a ratio is kept as the fraction count / size
Ratio(num, den) == [num |-> num, den |-> den]

\* ColorDetector.red_ratio with self._ranges = ranges. Of an image without pixels
\* cvtColor raises cv2.error, and the division by mask.size = 0 in the last line
\* would raise ZeroDivisionError: the call raises.
red_ratio(image, ranges) ==
  IF Len(image) = 0
  THEN [raised |-> TRUE, ratio |-> Ratio(0, 1)]
  ELSE [raised |-> FALSE, ratio |-> Ratio(Cardinality(mask_of(image, ranges)), Len(image))]

(***************************************************************************)
(* TemplateMatcher (detection.py)                                          *)
(***************************************************************************)

\* an image's shape: (rows, columns)
Shapes == (1..MaxDim) \X (1..MaxDim)

\* What is at a template's path when it is loaded: no file, a file that imread
\* cannot decode, or an image, of which the model keeps the shape
Files ==
  {[exists |-> FALSE, image |-> None], [exists |-> TRUE, image |-> None]}
  \cup {[exists |-> TRUE, image |-> Some(sh)] : sh \in Shapes}

\* A frame given to match: its shape, and the greatest normalized correlation a
\* template that fits into it has with it
Frames == {[shape |-> sh, max_val |-> v] : sh \in Shapes, v \in {0, 1}}

\* the names match is called with: a template of the configuration, and one that is not
TemplateNames == {"start", "absent"}

Returns(cache, value) == [raised |-> FALSE, error |-> "", cache |-> cache, value |-> value]
Raises(cache, error) == [raised |-> TRUE, error |-> error, cache |-> cache, value |-> <<FALSE, 0>>]

load_template_reload(cache, name, file) ==
  IF name \notin DOMAIN templates THEN Raises(cache, "KeyError")
  ELSE IF ~file.exists THEN Raises(cache, "FileNotFoundError")
  ELSE IF file.image = None THEN Raises(cache, "RuntimeError")
  ELSE LET entry == [image |-> CHOOSE sh \in file.image : TRUE, threshold |-> templates[name]]
       IN Returns([cache EXCEPT ![name] = Some(entry)], entry)

\* TemplateMatcher._load_template: the cache after the call, and (image, threshold)
load_template(cache, name, file) ==
  IF name \notin DOMAIN templates THEN Raises(cache, "KeyError")
  ELSE IF cache[name] # None THEN Returns(cache, CHOOSE e \in cache[name] : TRUE)
  ELSE IF ~file.exists THEN Raises(cache, "FileNotFoundError")
  ELSE IF file.image = None THEN Raises(cache, "RuntimeError")
  ELSE LET entry == [image |-> CHOOSE sh \in file.image : TRUE, threshold |-> templates[name]]
       IN Returns([cache EXCEPT ![name] = Some(entry)], entry)

match_frame_nocheck(cache, frame, name, file) ==
  LET l == load_template(cache, name, file)
  IN IF l.raised THEN l
     ELSE LET template == l.value.image
              threshold == l.value.threshold
          IN IF frame.shape[1] < template[1] \/ frame.shape[2] < template[2]
             THEN Raises(l.cache, "cv2.error")
             ELSE Returns(l.cache, <<frame.max_val >= threshold, frame.max_val>>)

\* TemplateMatcher.match: the cache after the call, and (matched, score)
match_frame(cache, frame, name, file) ==
  LET l == load_template(cache, name, file)
  IN IF l.raised THEN l
     ELSE LET template == l.value.image
              threshold == l.value.threshold
          IN IF frame.shape[1] < template[1] \/ frame.shape[2] < template[2]
             THEN Returns(l.cache, <<FALSE, 0>>)
             ELSE Returns(l.cache, <<frame.max_val >= threshold, frame.max_val>>)

(***************************************************************************)
(* The engine's predicates (automation_engine.py)                          *)
(***************************************************************************)

is_alive(t) == pc[t] \notin {"unborn", "done", "crashed"}
is_running == thread # 0 /\ is_alive(thread)
is_paused == ~pause_event

Event(k, i, ok) == [k |-> k, i |-> i, ok |-> ok]


(***************************************************************************)
(* The cycle's handlers                                                    *)
(***************************************************************************)

\* _handle_trades: the condition under which a trade's start button is clicked
should_click_strict(status) ==
  status.has_red_gem /\ status.start_active = Some(TRUE)

should_click(status) ==
  status.has_red_gem /\ (status.start_active = None \/ status.start_active = Some(TRUE))

\* _handle_trades over zip(config.trades, statuses) from position i on; the click
\* of trade fail_at raises (0: none does).
RECURSIVE trades_loop(_, _, _, _, _)
trades_loop(i, sts, log, any_click, fail_at) ==
  IF i > Len(trades) \/ i > Len(sts) THEN [log |-> log, any_click |-> any_click, raised |-> FALSE]
  ELSE IF should_click(sts[i])
       THEN IF fail_at = i
            THEN [log |-> Append(log, Event("trade", i, FALSE)), any_click |-> any_click,
                  raised |-> TRUE]
            ELSE trades_loop(i + 1, sts, Append(log, Event("trade", i, TRUE)), TRUE, fail_at)
       ELSE trades_loop(i + 1, sts, log, any_click, fail_at)

RECURSIVE trades_loop_down(_, _, _, _, _)
trades_loop_down(i, sts, log, any_click, fail_at) ==
  IF i < 1 THEN [log |-> log, any_click |-> any_click, raised |-> FALSE]
  ELSE IF should_click(sts[i])
       THEN IF fail_at = i
            THEN [log |-> Append(log, Event("trade", i, FALSE)), any_click |-> any_click,
                  raised |-> TRUE]
            ELSE trades_loop_down(i - 1, sts, Append(log, Event("trade", i, TRUE)), TRUE, fail_at)
       ELSE trades_loop_down(i - 1, sts, log, any_click, fail_at)

handle_trades_reversed(sts, log, fail_at) ==
  trades_loop_down(Min(Len(trades), Len(sts)), sts, log, FALSE, fail_at)

handle_trades(sts, log, fail_at) == trades_loop(1, sts, log, FALSE, fail_at)

\* _handle_collect: whether the collect click is due
collect_due_strict(t_now, last, interval) ==
  IF interval <= 0 THEN FALSE ELSE t_now - last > interval

collect_due_noguard(t_now, last, interval) == t_now - last >= interval

collect_due(t_now, last, interval) ==
  IF interval <= 0 THEN FALSE ELSE t_now - last >= interval

\* the timestamp assignment that follows a click: not reached when the click raises
stamp_before_click(ok, t_now, last) == t_now

stamp_after_click(ok, t_now, last) == IF ok THEN t_now ELSE last

\* _handle_refresh: whether the refresh click fires
refresh_fires_any_disabled(sts, performed, t_now, last, refresh_interval) ==
  LET refresh_due == refresh_interval > 0 /\ (t_now - last >= refresh_interval)
      no_red == ~(\E i \in DOMAIN sts : sts[i].has_red_gem)
      any_disabled == \E i \in DOMAIN sts : sts[i].start_disabled = Some(TRUE)
  IN (no_red \/ any_disabled \/ refresh_due) /\ ~performed

refresh_fires_despite_click(sts, performed, t_now, last, refresh_interval) ==
  LET refresh_due == refresh_interval > 0 /\ (t_now - last >= refresh_interval)
      no_red == ~(\E i \in DOMAIN sts : sts[i].has_red_gem)
      disabled_flags == {i \in DOMAIN sts : sts[i].start_disabled # None}
      all_disabled == disabled_flags # {}
                        /\ \A i \in disabled_flags : sts[i].start_disabled = Some(TRUE)
  IN no_red \/ all_disabled \/ refresh_due

refresh_fires(sts, performed, t_now, last, refresh_interval) ==
  LET refresh_due == refresh_interval > 0 /\ (t_now - last >= refresh_interval)
      no_red == ~(\E i \in DOMAIN sts : sts[i].has_red_gem)
      disabled_flags == {i \in DOMAIN sts : sts[i].start_disabled # None}
      all_disabled == disabled_flags # {}
                        /\ \A i \in disabled_flags : sts[i].start_disabled = Some(TRUE)
  IN (no_red \/ all_disabled \/ refresh_due) /\ ~performed

(***************************************************************************)
(* The worker: _run_loop                                                   *)
(***************************************************************************)

CyclePcs == {"evaluate", "trades", "collect", "refresh", "cycle_sleep"}

\* the worker dies of the exception of a click call: its frame is gone, and of
\* what it did the call that raised is kept
Crash(t, log) ==
  /\ pc' = [pc EXCEPT ![t] = "crashed"]
  /\ ev' = [ev EXCEPT ![t] = <<log[Len(log)]>>]
  /\ statuses' = [statuses EXCEPT ![t] = <<>>]
  /\ click_performed' = [click_performed EXCEPT ![t] = FALSE]

LoopTop_nostop(t) ==
  /\ pc[t] = "top"
  /\ pc' = [pc EXCEPT ![t] = "pause_check"]
  /\ UNCHANGED <<timing, app_vars, engine_vars, statuses, click_performed, ev, now, ctl_vars, eval_vars, rest_vars>>

\* while not self._stop_event.is_set()
LoopTop(t) ==
  /\ pc[t] = "top"
  /\ pc' = [pc EXCEPT ![t] = IF stop_event THEN "done" ELSE "pause_check"]
  /\ UNCHANGED <<timing, app_vars, engine_vars, statuses, click_performed, ev, now, ctl_vars, eval_vars, rest_vars>>

PauseCheck_ignored(t) ==
  /\ pc[t] = "pause_check"
  /\ pc' = [pc EXCEPT ![t] = "evaluate"]
  /\ UNCHANGED <<timing, app_vars, engine_vars, statuses, click_performed, ev, now, ctl_vars, eval_vars, rest_vars>>

\* if not self._pause_event.is_set(): sleep(0.1); continue
PauseCheck(t) ==
  /\ pc[t] = "pause_check"
  /\ pc' = [pc EXCEPT ![t] = IF pause_event THEN "evaluate" ELSE "top"]
  /\ UNCHANGED <<timing, app_vars, engine_vars, statuses, click_performed, ev, now, ctl_vars, eval_vars, rest_vars>>

\* self._update_statuses(statuses): self._last_statuses is bound to the new list,
\* so a list handed out before is no longer the one the engine holds
update_statuses(sts) ==
  /\ last_statuses' = sts
  /\ reader_alias' = FALSE

\* statuses = self._detection.evaluate_all(), whose outcome is one of Results (what
\* evaluate_all makes of what the screen shows), and self._update_statuses(statuses)
Evaluate(t, Results) ==
  /\ pc[t] = "evaluate"
  /\ \E r \in Results :
       /\ statuses' = [statuses EXCEPT ![t] = r.statuses]
       /\ last_frames' = store_frames(last_frames, r.frames)
       /\ update_statuses(r.statuses)
  /\ frames_view' = IF frames_alias THEN last_frames' ELSE frames_view
  /\ ev' = [ev EXCEPT ![t] = ev[t] \o <<Event("eval", 0, TRUE), Event("publish", 0, TRUE)>>]
  /\ pc' = [pc EXCEPT ![t] = "trades"]
  /\ UNCHANGED <<timing, app_vars, thread, stop_event, pause_event, last_collect_ts, last_refresh_ts,
                 click_performed, now, ctl_vars, eval_vars, reader_list, frames_alias, det_vars>>

\* click_performed = self._handle_trades(statuses)
HandleTrades(t) ==
  /\ pc[t] = "trades"
  /\ \E fail_at \in 0..NTrades :
       LET r == handle_trades(statuses[t], ev[t], fail_at)
       IN IF r.raised
          THEN Crash(t, r.log)
          ELSE /\ pc' = [pc EXCEPT ![t] = "collect"]
               /\ ev' = [ev EXCEPT ![t] = r.log]
               /\ click_performed' = [click_performed EXCEPT ![t] = r.any_click]
               /\ UNCHANGED statuses
  /\ UNCHANGED <<timing, app_vars, engine_vars, now, ctl_vars, eval_vars, rest_vars>>

\* self._handle_collect()
HandleCollect(t) ==
  /\ pc[t] = "collect"
  /\ IF collect_due(now, last_collect_ts, timing.collect_interval)
     THEN \E ok \in BOOLEAN :
            /\ last_collect_ts' = stamp_after_click(ok, now, last_collect_ts)
            /\ IF ok
               THEN /\ pc' = [pc EXCEPT ![t] = "refresh"]
                    /\ ev' = [ev EXCEPT ![t] = Append(ev[t], Event("collect", 0, TRUE))]
                    /\ UNCHANGED <<statuses, click_performed>>
               ELSE Crash(t, Append(ev[t], Event("collect", 0, FALSE)))
     ELSE /\ pc' = [pc EXCEPT ![t] = "refresh"]
          /\ UNCHANGED <<last_collect_ts, statuses, click_performed, ev>>
  /\ UNCHANGED <<timing, app_vars, thread, stop_event, pause_event, last_statuses, last_refresh_ts,
                 now, ctl_vars, eval_vars, rest_vars>>

\* self._handle_refresh(statuses, click_performed)
HandleRefresh(t) ==
  /\ pc[t] = "refresh"
  /\ IF refresh_fires(statuses[t], click_performed[t], now, last_refresh_ts,
                      timing.refresh_interval)
     THEN \E ok \in BOOLEAN :
            /\ last_refresh_ts' = stamp_after_click(ok, now, last_refresh_ts)
            /\ IF ok
               THEN /\ pc' = [pc EXCEPT ![t] = "cycle_sleep"]
                    /\ ev' = [ev EXCEPT ![t] = Append(ev[t], Event("refresh", 0, TRUE))]
                    /\ UNCHANGED <<statuses, click_performed>>
               ELSE Crash(t, Append(ev[t], Event("refresh", 0, FALSE)))
     ELSE /\ pc' = [pc EXCEPT ![t] = "cycle_sleep"]
          /\ UNCHANGED <<last_refresh_ts, statuses, click_performed, ev>>
  /\ UNCHANGED <<timing, app_vars, thread, stop_event, pause_event, last_statuses, last_collect_ts,
                 now, ctl_vars, eval_vars, rest_vars>>

\* time.sleep(max(cycle_delay - elapsed, 0.01)), and back to the loop's top
CycleSleep(t) ==
  /\ pc[t] = "cycle_sleep"
  /\ pc' = [pc EXCEPT ![t] = "top"]
  /\ statuses' = [statuses EXCEPT ![t] = <<>>]
  /\ click_performed' = [click_performed EXCEPT ![t] = FALSE]
  /\ ev' = [ev EXCEPT ![t] = <<>>]
  /\ UNCHANGED <<timing, app_vars, engine_vars, now, ctl_vars, eval_vars, rest_vars>>

\* the clock advances
Tick ==
  /\ now < MaxTime
  /\ now' = now + 1
  /\ UNCHANGED <<timing, app_vars, engine_vars, worker_vars, ctl_vars, eval_vars, rest_vars>>


(***************************************************************************)
(* The controlling thread: start, stop, pause, resume                      *)
(***************************************************************************)

Returned == /\ ctl' = "idle"
            /\ stops' = 0
            /\ join_timed_out' = FALSE

\* the controlling thread enters a method of the engine
Call(op) ==
  /\ ctl = "idle"
  /\ op = "start" => (is_running \/ \E t \in Threads : pc[t] = "unborn")
  /\ ctl' = op
  /\ UNCHANGED <<timing, app_vars, engine_vars, worker_vars, now, stops, join_timed_out, eval_vars, rest_vars>>

NewThread(t) ==
  /\ pc[t] = "unborn"
  /\ \A u \in Threads : u < t => pc[u] # "unborn"
  /\ stop_event' = FALSE
  /\ pause_event' = TRUE
  /\ thread' = t
  /\ pc' = [pc EXCEPT ![t] = "top"]
  /\ ev' = [u \in Threads |-> IF is_alive(u) THEN ev[u] ELSE <<>>]

start_unguarded ==
  /\ ctl = "start"
  /\ \E t \in Threads : NewThread(t)
  /\ Returned
  /\ UNCHANGED <<timing, app_vars, last_statuses, last_collect_ts, last_refresh_ts,
                 statuses, click_performed, now, eval_vars, rest_vars>>

start_resets_ts ==
  /\ ctl = "start"
  /\ IF is_running
     THEN UNCHANGED <<thread, stop_event, pause_event, pc, ev, last_collect_ts, last_refresh_ts>>
     ELSE /\ \E t \in Threads : NewThread(t)
          /\ last_collect_ts' = 0
          /\ last_refresh_ts' = 0
  /\ Returned
  /\ UNCHANGED <<timing, app_vars, last_statuses, statuses, click_performed, now, eval_vars, rest_vars>>

start ==
  /\ ctl = "start"
  /\ IF is_running
     THEN UNCHANGED <<thread, stop_event, pause_event, pc, ev>>
     ELSE \E t \in Threads : NewThread(t)
  /\ Returned
  /\ UNCHANGED <<timing, app_vars, last_statuses, last_collect_ts, last_refresh_ts,
                 statuses, click_performed, now, eval_vars, rest_vars>>

StopReturned(timed_out) ==
  /\ ctl' = "idle"
  /\ stops' = IF stops < 2 THEN stops + 1 ELSE 2
  /\ join_timed_out' = timed_out

stop_event_unset ==
  /\ ctl = "stop"
  /\ UNCHANGED stop_event
  /\ IF is_running
     THEN ctl' = "join" /\ UNCHANGED <<stops, join_timed_out>>
     ELSE StopReturned(FALSE)
  /\ UNCHANGED <<timing, app_vars, thread, pause_event, last_statuses, last_collect_ts, last_refresh_ts,
                 worker_vars, now, eval_vars, rest_vars>>

\* stop() up to its join: self._stop_event.set(); if the worker is alive, join it
stop ==
  /\ ctl = "stop"
  /\ stop_event' = TRUE
  /\ IF is_running
     THEN ctl' = "join" /\ UNCHANGED <<stops, join_timed_out>>
     ELSE StopReturned(FALSE)
  /\ UNCHANGED <<timing, app_vars, thread, pause_event, last_statuses, last_collect_ts, last_refresh_ts,
                 worker_vars, now, eval_vars, rest_vars>>

\* join(timeout=2.0) returns because the worker has ended
JoinReturn ==
  /\ ctl = "join"
  /\ ~is_alive(thread)
  /\ StopReturned(FALSE)
  /\ UNCHANGED <<timing, app_vars, engine_vars, worker_vars, now, eval_vars, rest_vars>>

\* join(timeout=2.0) returns because 2.0 s have passed: the worker is in a cycle,
\* whose grabs, settle delays and final sleep take as long as the configuration says
\* (at the loop's top it would have seen the stop flag within its 0.1 s poll)
JoinTimeout ==
  /\ ctl = "join"
  /\ is_alive(thread)
  /\ pc[thread] \in CyclePcs
  /\ StopReturned(TRUE)
  /\ UNCHANGED <<timing, app_vars, engine_vars, worker_vars, now, eval_vars, rest_vars>>

pause_stops ==
  /\ ctl = "pause"
  /\ pause_event' = FALSE
  /\ stop_event' = TRUE
  /\ Returned
  /\ UNCHANGED <<timing, app_vars, thread, last_statuses, last_collect_ts, last_refresh_ts,
                 worker_vars, now, eval_vars, rest_vars>>

pause ==
  /\ ctl = "pause"
  /\ pause_event' = FALSE
  /\ Returned
  /\ UNCHANGED <<timing, app_vars, thread, stop_event, last_statuses, last_collect_ts, last_refresh_ts,
                 worker_vars, now, eval_vars, rest_vars>>

resume ==
  /\ ctl = "resume"
  /\ pause_event' = TRUE
  /\ Returned
  /\ UNCHANGED <<timing, app_vars, thread, stop_event, last_statuses, last_collect_ts, last_refresh_ts,
                 worker_vars, now, eval_vars, rest_vars>>

(***************************************************************************)
(* toggle_pause, called from the hotkey thread and from the UI thread      *)
(***************************************************************************)

\* the threads that call toggle_pause: _on_pause_hotkey, and the GUI's button
Togglers == {"hotkey", "ui"}

\* no toggle_pause call has begun
TogglersIdle == \A k \in Togglers : toggle.calls[k].pc = "idle"

\* toggle_pause's `if self._pause_event.is_set()`: the caller reads the flag and
\* goes on to pause() or to resume(). The paused state before the first of the
\* calls is kept in toggle.before.
ToggleRead(k) ==
  /\ toggle.calls[k].pc = "idle"
  /\ ctl = "idle"
  /\ toggle' = [before |-> IF TogglersIdle THEN Some(is_paused) ELSE toggle.before,
                calls |-> [toggle.calls EXCEPT ![k].pc = IF pause_event THEN "pausing"
                                                         ELSE "resuming"]]
  /\ UNCHANGED <<timing, engine_vars, worker_vars, now, ctl_vars, eval_vars, rest_vars,
                 controller>>

\* toggle_pause's `self.pause(); return True`, or `self.resume(); return False`
ToggleAct(k) ==
  /\ toggle.calls[k].pc \in {"pausing", "resuming"}
  /\ pause_event' = (toggle.calls[k].pc = "resuming")
  /\ toggle' = [toggle EXCEPT !.calls[k] =
                  [pc |-> "done", ret |-> Some(toggle.calls[k].pc = "pausing")]]
  /\ UNCHANGED <<timing, thread, stop_event, last_statuses, last_collect_ts, last_refresh_ts,
                 worker_vars, now, ctl_vars, eval_vars, rest_vars, controller>>

(***************************************************************************)
(* AutomationController.reload_config (controller.py)                      *)
(***************************************************************************)

\* ConfigLoader.load: raises (no file, unreadable or invalid content), or returns
\* a new AppConfig, of which the model keeps the timing section
Loads == {[raises |-> TRUE, config |-> None]} \cup
         {[raises |-> FALSE, config |-> Some(c)] : c \in Timings}

\* reload_config without its `self._engine.shutdown()`
ReloadLoad_noshutdown(l) ==
  /\ ctl = "idle"
  /\ controller.phase = "idle"
  /\ controller.reloads < MaxReloads
  /\ IF l.raises
     THEN controller' = [controller EXCEPT !.result = "raised", !.reloads = @ + 1]
     ELSE controller' = [controller EXCEPT !.phase = "shutdown", !.loaded = l.config,
                                            !.reloads = @ + 1]
  /\ UNCHANGED <<timing, toggle, engine_vars, worker_vars, now, ctl_vars, eval_vars, rest_vars>>

\* reload_config up to its call of the engine's stop():
\* `config = self._config_loader.load()`, which may raise and end the call, and
\* `if self._engine: self._engine.shutdown()`, which enters stop()
ReloadLoad(l) ==
  /\ ctl = "idle"
  /\ controller.phase = "idle"
  /\ controller.reloads < MaxReloads
  /\ IF l.raises
     THEN /\ controller' = [controller EXCEPT !.result = "raised", !.reloads = @ + 1]
          /\ UNCHANGED ctl
     ELSE /\ controller' = [controller EXCEPT !.phase = "shutdown", !.loaded = l.config,
                                               !.reloads = @ + 1]
          /\ ctl' = "stop"
  /\ UNCHANGED <<timing, toggle, engine_vars, worker_vars, now, stops, join_timed_out,
                 eval_vars, rest_vars>>

\* reload_config after stop() has returned: `self._stop_hotkeys()`,
\* `self._config = config`, `self._engine = AutomationEngine(config)` (the state of
\* AutomationEngine.__init__), `self._setup_hotkeys(config)`. A worker of the old
\* engine that outlived the join goes on by itself, on the old engine's objects.
ReloadSwap ==
  /\ ctl = "idle"
  /\ controller.phase = "shutdown"
  /\ \E c \in controller.loaded :
       /\ controller' = [controller EXCEPT !.phase = "idle", !.loaded = None,
                                            !.result = "reloaded",
                                            !.configs = Append(@, c),
                                            !.config = Len(controller.configs) + 1,
                                            !.engine = @ + 1,
                                            !.hotkeys = @ + 1]
       /\ timing' = c
  /\ thread' = 0
  /\ stop_event' = FALSE
  /\ pause_event' = TRUE
  /\ last_statuses' = <<>>
  /\ last_collect_ts' = 0
  /\ last_refresh_ts' = 0
  /\ last_frames' = [i \in 1..NTrades |-> None]
  /\ tm_cache' = [n \in DOMAIN templates |-> None]
  /\ pc' = [t \in Threads |-> IF is_alive(t) THEN "orphan" ELSE pc[t]]
  /\ statuses' = [t \in Threads |-> <<>>]
  /\ click_performed' = [t \in Threads |-> FALSE]
  /\ ev' = [t \in Threads |-> <<>>]
  /\ stops' = 0
  /\ join_timed_out' = FALSE
  /\ UNCHANGED <<toggle, now, ctl, eval_vars, observer_vars, fn_in, fn_out>>

\* the worker of a replaced engine ends: it finishes its cycle or raises in it,
\* and at the loop's top it finds the stop flag of its engine set
OrphanExit(t) ==
  /\ pc[t] = "orphan"
  /\ pc' = [pc EXCEPT ![t] = "done"]
  /\ UNCHANGED <<timing, app_vars, engine_vars, statuses, click_performed, ev, now, ctl_vars,
                 eval_vars, rest_vars>>

(***************************************************************************)
(* Status export: a reader of `statuses`, an observer of last_frames()     *)
(***************************************************************************)

ReadStatuses_nocopy ==
  /\ reader_list' = last_statuses
  /\ reader_alias' = TRUE
  /\ UNCHANGED <<timing, app_vars, engine_vars, worker_vars, now, ctl_vars, eval_vars,
                 last_frames, frames_view, frames_alias, det_vars>>

\* the `statuses` property: with self._lock: return list(self._last_statuses)
ReadStatuses ==
  /\ reader_list' = last_statuses
  /\ reader_alias' = FALSE
  /\ UNCHANGED <<timing, app_vars, engine_vars, worker_vars, now, ctl_vars, eval_vars,
                 last_frames, frames_view, frames_alias, det_vars>>

\* a status no evaluation makes, which a reader puts into its list
foreign_status == TradeStatus(0, 0, FALSE, None, None, None)

\* What a reader may do to the list it got: here it appends to it, once. The
\* list self._last_statuses changes with it if it is the same object.
ReaderChange ==
  /\ \A k \in DOMAIN reader_list : reader_list[k] # foreign_status
  /\ reader_list' = Append(reader_list, foreign_status)
  /\ last_statuses' = IF reader_alias THEN reader_list' ELSE last_statuses
  /\ UNCHANGED <<timing, app_vars, thread, stop_event, pause_event, last_collect_ts, last_refresh_ts,
                 worker_vars, now, ctl_vars, eval_vars,
                 last_frames, reader_alias, frames_view, frames_alias, det_vars>>

\* AutomationEngine.last_frames(): return self._detection.last_frames, which is
\* DetectionManager's `return self._last_frames`
ReadFrames ==
  /\ frames_view' = last_frames
  /\ frames_alias' = TRUE
  /\ UNCHANGED <<timing, app_vars, engine_vars, worker_vars, now, ctl_vars, eval_vars,
                 last_frames, reader_list, reader_alias, det_vars>>

\* What an observer may do to the map it got: here it deletes an entry. The map
\* DetectionManager._last_frames changes with it if it is the same object.
ObserverChange ==
  /\ \E i \in DOMAIN frames_view :
       /\ frames_view[i] # None
       /\ frames_view' = [frames_view EXCEPT ![i] = None]
  /\ last_frames' = IF frames_alias THEN frames_view' ELSE last_frames
  /\ UNCHANGED <<timing, app_vars, engine_vars, worker_vars, now, ctl_vars, eval_vars,
                 reader_list, reader_alias, frames_alias, det_vars>>

(***************************************************************************)
(* evaluate_all called on its own                                          *)
(***************************************************************************)

EvalObs == ObsSeqs(NTrades, {0, 1, 2}, {-1, 0, 1}, BOOLEAN)

EvaluateAll ==
  /\ eval_obs = <<>>
  /\ \E obs \in EvalObs :
       /\ eval_obs' = obs
       /\ eval_out' = evaluate_all(obs)
       /\ last_frames' = store_frames(last_frames, grabbed(obs))
  /\ frames_view' = IF frames_alias THEN last_frames' ELSE frames_view
  /\ UNCHANGED <<timing, app_vars, engine_vars, worker_vars, now, ctl_vars,
                 reader_list, reader_alias, frames_alias, det_vars>>

(***************************************************************************)
(* The detection functions called on their own                             *)
(***************************************************************************)

\* config.templates of the managers evaluate_trade is called on: every subset of
\* the two template names, none included
TemplateConfigs == {[n \in D |-> 1] : D \in SUBSET {"start", "gray"}}

\* the trades evaluate_trade is called with: each template named or not
TradeConfigs ==
  {[name |-> 1, start_template |-> a, start_gray_template |-> d, red_ratio_threshold |-> 1] :
     a \in {None, Some("start")}, d \in {None, Some("gray")}}

\* what the screen shows of the trade at that call
CallObs ==
  {[grab_ok |-> FALSE, ratio |-> 0, act |-> NoMatch, dis |-> NoMatch]}
  \cup {[grab_ok |-> TRUE, ratio |-> r, act |-> a, dis |-> d] :
          r \in {0, 1}, a \in MatchObs({-1, 0, 1}), d \in MatchObs({-1, 0, 1})}

\* self.evaluate_trade(trade) of a DetectionManager made with the templates tmpl
EvaluateTrade ==
  /\ fn_in.fn = "none"
  /\ \E tmpl \in TemplateConfigs, trade \in TradeConfigs, o \in CallObs :
       LET r == evaluate_trade_of(tmpl, trade, o)
       IN /\ fn_in' = [fn |-> "evaluate_trade", templates |-> tmpl, trade |-> trade, obs |-> o]
          /\ fn_out' = [fn |-> "evaluate_trade", raised |-> r.raised, status |-> r.status]
  /\ UNCHANGED <<timing, app_vars, engine_vars, worker_vars, now, ctl_vars, eval_vars,
                 last_frames, observer_vars, tm_cache>>

\* self._bounded_region(region) of a grabber made for `monitor`
BoundedRegion ==
  /\ fn_in.fn = "none"
  /\ \E monitor \in Monitors, region \in Regions :
       /\ fn_in' = [fn |-> "bounded_region", monitor |-> monitor, region |-> region]
       /\ fn_out' = [fn |-> "bounded_region", bounded |-> bounded_region(monitor, region)]
  /\ UNCHANGED <<timing, app_vars, engine_vars, worker_vars, now, ctl_vars, eval_vars,
                 last_frames, observer_vars, tm_cache>>

\* red_ratio(frame_bgr) of three detectors on one image: one made with the ranges
\* [a, b], one with [a], one with [b]
RedRatio ==
  /\ fn_in.fn = "none"
  /\ \E image \in Images, a \in HSVRanges, b \in HSVRanges :
       /\ fn_in' = [fn |-> "red_ratio", image |-> image, a |-> a, b |-> b]
       /\ fn_out' = [fn |-> "red_ratio", both |-> red_ratio(image, <<a, b>>),
                     a |-> red_ratio(image, <<a>>), b |-> red_ratio(image, <<b>>)]
  /\ UNCHANGED <<timing, app_vars, engine_vars, worker_vars, now, ctl_vars, eval_vars,
                 last_frames, observer_vars, tm_cache>>

\* self.match(frame_bgr, template_name) of one TemplateMatcher, call after call,
\* with `file` at the template's path at the time of the call
Match ==
  /\ fn_in.fn \in {"none", "match"}
  /\ \E name \in TemplateNames, frame \in Frames, file \in Files :
       LET r == match_frame(tm_cache, frame, name, file)
       IN /\ fn_in' = [fn |-> "match", name |-> name, frame |-> frame, file |-> file,
                       cache |-> tm_cache]
          /\ fn_out' = [fn |-> "match", raised |-> r.raised, error |-> r.error, value |-> r.value]
          /\ tm_cache' = r.cache
  /\ UNCHANGED <<timing, app_vars, engine_vars, worker_vars, now, ctl_vars, eval_vars,
                 last_frames, observer_vars>>

(***************************************************************************)
(* Specifications                                                          *)
(***************************************************************************)

\* the state after AutomationEngine.__init__
InitEngine ==
  /\ thread = 0
  /\ stop_event = FALSE
  /\ pause_event = TRUE
  /\ last_statuses = <<>>
  /\ last_collect_ts = 0
  /\ last_refresh_ts = 0
  /\ pc = [t \in Threads |-> "unborn"]
  /\ statuses = [t \in Threads |-> <<>>]
  /\ click_performed = [t \in Threads |-> FALSE]
  /\ ev = [t \in Threads |-> <<>>]
  /\ now = 1
  /\ ctl = "idle"
  /\ stops = 0
  /\ join_timed_out = FALSE
  /\ eval_obs = <<>>
  /\ eval_out = <<>>
  /\ last_frames = [i \in 1..NTrades |-> None]
  /\ reader_list = <<>>
  /\ reader_alias = FALSE
  /\ frames_view = [i \in 1..NTrades |-> None]
  /\ frames_alias = FALSE
  /\ tm_cache = [n \in DOMAIN templates |-> None]
  /\ fn_in = [fn |-> "none"]
  /\ fn_out = [fn |-> "none"]
  /\ toggle = [before |-> None, calls |-> [k \in Togglers |-> [pc |-> "idle", ret |-> None]]]
  /\ controller = [phase |-> "idle", loaded |-> None, result |-> "none", reloads |-> 0,
                   configs |-> <<timing>>, config |-> 1, engine |-> 1, hotkeys |-> 1]

\* What the screen shows in the life-cycle specification: every trade red and
\* active, or no trade red; no grab or match fails.
LifeObs ==
  {[i \in 1..NTrades |->
      [grab_ok |-> TRUE, ratio |-> r,
       act |-> IF trade_config(i).start_template # None
               THEN [raises |-> FALSE, max_val |-> 1] ELSE NoMatch,
       dis |-> NoMatch]] : r \in {0, 1}}

\* What the screen shows in the cycle specification: every grab returns, a match may raise
CycleObs == ObsSeqs(NTrades, {0, 1}, {0, 1}, {TRUE})

LifeResults == {evaluation(obs) : obs \in LifeObs}
CycleResults == {evaluation(obs) : obs \in CycleObs}

Worker(t, Results) ==
  \/ LoopTop(t)
  \/ PauseCheck(t)
  \/ Evaluate(t, Results)
  \/ HandleTrades(t)
  \/ HandleCollect(t)
  \/ HandleRefresh(t)
  \/ CycleSleep(t)

\* The engine under its controlling thread
Init ==
  /\ timing = [collect_interval |-> 1, refresh_interval |-> 1]
  /\ InitEngine

Next ==
  \/ \E op \in {"start", "stop", "pause", "resume"} : Call(op)
  \/ start
  \/ stop
  \/ JoinReturn
  \/ JoinTimeout
  \/ pause
  \/ resume
  \/ \E t \in Threads : Worker(t, LifeResults)
  \/ Tick

Spec == Init /\ [][Next]_vars

\* The same engine with its worker threads scheduled: a worker that can take its
\* next step (every call of its cycle returns or raises) eventually takes it.
SpecLive == Spec /\ \A t \in Threads : WF_vars(Worker(t, LifeResults))

\* The cycle's policy: the engine started once, under every timing and every screen
InitCycle ==
  /\ timing \in Timings
  /\ InitEngine

NextCycle ==
  \/ thread = 0 /\ Call("start")
  \/ start
  \/ \E t \in Threads : Worker(t, CycleResults)
  \/ Tick

SpecCycle == InitCycle /\ [][NextCycle]_vars

\* The engine started once, with a reader of its statuses and an observer of its frames
NextObserve ==
  \/ thread = 0 /\ Call("start")
  \/ start
  \/ \E t \in Threads : Worker(t, LifeResults)
  \/ ReadStatuses
  \/ ReaderChange
  \/ ReadFrames
  \/ ObserverChange

SpecObserve == Init /\ [][NextObserve]_vars

\* evaluate_all alone
InitEval ==
  /\ timing = [collect_interval |-> 1, refresh_interval |-> 1]
  /\ InitEngine

NextEval == EvaluateAll

SpecEval == InitEval /\ [][NextEval]_vars

\* The engine started once, paused and resumed by its owner, and then one
\* toggle_pause call from each of the two threads
NextToggle ==
  \/ thread = 0 /\ TogglersIdle /\ Call("start")
  \/ start
  \/ \E op \in {"pause", "resume"} : TogglersIdle /\ Call(op)
  \/ pause
  \/ resume
  \/ \E t \in Threads : Worker(t, LifeResults)
  \/ \E k \in Togglers : ToggleRead(k)
  \/ \E k \in Togglers : ToggleAct(k)

SpecToggle == Init /\ [][NextToggle]_vars

\* The controller: the engine started and its configuration reloaded
NextReload ==
  \/ controller.phase = "idle" /\ Call("start")
  \/ start
  \/ \E l \in Loads : ReloadLoad(l)
  \/ stop
  \/ JoinReturn
  \/ JoinTimeout
  \/ ReloadSwap
  \/ \E t \in Threads : Worker(t, LifeResults)
  \/ \E t \in Threads : OrphanExit(t)

SpecReload == Init /\ [][NextReload]_vars

\* The detection functions alone, each called on every input within the bounds
NextDetect ==
  \/ BoundedRegion
  \/ Match
  \/ RedRatio
  \/ EvaluateTrade

SpecDetect == InitEval /\ [][NextDetect]_vars


(***************************************************************************)
(* Claims                                                                  *)
(***************************************************************************)

\* the click calls of kind k (and trade i) in a cycle's log
Calls(log, k, i) == {n \in DOMAIN log : log[n].k = k /\ log[n].i = i}

\* a trade's threshold is exceeded and its active flag is true or unset
Actionable(st) == st.has_red_gem /\ st.start_active \in {None, Some(TRUE)}

\* a full pass of the cycle has run, up to its final sleep
CycleDone(t) == pc[t] = "cycle_sleep"

\* C1: in a cycle with a trade whose threshold is exceeded and whose active flag is
\* true or unset, that trade's start button is clicked and no refresh click occurs,
\* whatever the refresh timer and the disabled flags.
C1_TradeClickNoRefresh ==
  \A t \in Threads : CycleDone(t) =>
    \A i \in DOMAIN statuses[t] :
      Actionable(statuses[t][i]) =>
        /\ Calls(ev[t], "trade", i) # {}
        /\ Calls(ev[t], "refresh", 0) = {}

\* a cycle has clicked a trade whose disabled flag is true while the refresh interval had elapsed
C1_Witness ==
  \E t \in Threads : CycleDone(t) /\
    \E i \in DOMAIN statuses[t] :
      /\ Actionable(statuses[t][i])
      /\ statuses[t][i].start_disabled = Some(TRUE)
      /\ Calls(ev[t], "trade", i) # {}
      /\ timing.refresh_interval > 0
      /\ now - last_refresh_ts >= timing.refresh_interval

\* C4: the refresh step clicks iff no trade was clicked in the cycle and (a) no
\* status has its threshold exceeded, or (b) some disabled flag is reported and all
\* reported ones are true, or (c) the refresh interval is positive and has elapsed;
\* then it clicks once and sets the last-refresh timestamp to the current time.
C4_RefreshCondition(t) ==
  LET sts == statuses[t]
      trade_clicked == \E i \in 1..NTrades : Calls(ev[t], "trade", i) # {}
      a == \A i \in DOMAIN sts : ~sts[i].has_red_gem
      reported == {i \in DOMAIN sts : sts[i].start_disabled # None}
      b == reported # {} /\ \A i \in reported : sts[i].start_disabled = Some(TRUE)
      c == timing.refresh_interval > 0 /\ now - last_refresh_ts >= timing.refresh_interval
  IN ~trade_clicked /\ (a \/ b \/ c)

C4_RefreshIff ==
  /\ [](\A t \in Threads : Cardinality(Calls(ev[t], "refresh", 0)) <= 1)
  /\ [][\A t \in Threads :
          (pc[t] = "refresh" /\ pc'[t] = "cycle_sleep") =>
            IF C4_RefreshCondition(t)
            THEN /\ ev'[t] = Append(ev[t], Event("refresh", 0, TRUE))
                 /\ last_refresh_ts' = now
            ELSE /\ ev'[t] = ev[t]
                 /\ last_refresh_ts' = last_refresh_ts]_vars

\* a refresh click with no refresh interval configured, no disabled flag true and
\* the collect interval not elapsed: condition (a) alone
C4_Witness ==
  \E t \in Threads :
    /\ CycleDone(t)
    /\ Calls(ev[t], "refresh", 0) # {}
    /\ Calls(ev[t], "collect", 0) = {}
    /\ timing.refresh_interval = 0
    /\ timing.collect_interval > 0
    /\ last_refresh_ts = now
    /\ \A i \in DOMAIN statuses[t] : statuses[t][i].start_disabled # Some(TRUE)

\* C5: the collect step clicks exactly once and sets the last-collect timestamp to
\* the current time when the collect interval is positive and has elapsed, whether
\* or not a trade was clicked; otherwise it does not click and leaves the timestamp.
C5_CollectWhenDue ==
  /\ [](\A t \in Threads : Cardinality(Calls(ev[t], "collect", 0)) <= 1)
  /\ [][\A t \in Threads :
          (pc[t] = "collect" /\ pc'[t] = "refresh") =>
            IF timing.collect_interval > 0
                 /\ now - last_collect_ts >= timing.collect_interval
            THEN /\ ev'[t] = Append(ev[t], Event("collect", 0, TRUE))
                 /\ last_collect_ts' = now
            ELSE /\ ev'[t] = ev[t]
                 /\ last_collect_ts' = last_collect_ts]_vars

\* a cycle that clicked a trade and then the collect button, a second time in the run
C5_Witness ==
  \E t \in Threads :
    /\ CycleDone(t)
    /\ \E i \in 1..NTrades : Calls(ev[t], "trade", i) # {}
    /\ Calls(ev[t], "collect", 0) # {}
    /\ last_collect_ts = now
    /\ now > 1

\* C6: with a collect interval <= 0 no collect click ever occurs and the
\* last-collect timestamp keeps its initial value.
C6_CollectDisabled ==
  timing.collect_interval <= 0 =>
    /\ last_collect_ts = 0
    /\ \A t \in Threads : Calls(ev[t], "collect", 0) = {}

\* a full cycle under a collect interval of 0, late in the run
C6_Witness ==
  /\ timing.collect_interval = 0
  /\ now = MaxTime
  /\ \E t \in Threads : CycleDone(t)

\* C7: after the trade step, each trade has been clicked once if its threshold is
\* exceeded and its active flag is true or unset, and not at all otherwise; the
\* cycle is marked as having clicked iff some trade was clicked.
C7_TradeClicks ==
  \A t \in Threads : pc[t] \in {"collect", "refresh", "cycle_sleep"} =>
    /\ Len(statuses[t]) = NTrades
    /\ \A i \in 1..NTrades :
         LET st == statuses[t][i]
             n == Cardinality(Calls(ev[t], "trade", i))
         IN /\ (st.has_red_gem /\ st.start_active \in {None, Some(TRUE)}) => n = 1
            /\ (~st.has_red_gem \/ st.start_active = Some(FALSE)) => n = 0
    /\ click_performed[t] <=> \E i \in 1..NTrades : Calls(ev[t], "trade", i) # {}

\* one trade is red with its active flag false and is skipped, another is red with
\* the flag unset and is clicked
C7_Witness ==
  \E t \in Threads :
    /\ pc[t] = "collect"
    /\ click_performed[t]
    /\ \E i, j \in DOMAIN statuses[t] :
         /\ statuses[t][i].has_red_gem /\ statuses[t][i].start_active = Some(FALSE)
         /\ Calls(ev[t], "trade", i) = {}
         /\ statuses[t][j].has_red_gem /\ statuses[t][j].start_active = None
         /\ Calls(ev[t], "trade", j) # {}


\* evaluating trade i raises: its grab, or the match of one of its templates
EvalFails(i, o) ==
  \/ ~o.grab_ok
  \/ trade_config(i).start_template # None /\ o.act.raises
  \/ trade_config(i).start_gray_template # None /\ o.dis.raises

\* the screen with every failing trade replaced by one that evaluates
Repaired(obs) ==
  [i \in DOMAIN obs |->
     IF EvalFails(i, obs[i])
     THEN [grab_ok |-> TRUE, ratio |-> 0, act |-> NoMatch, dis |-> NoMatch]
     ELSE obs[i]]

\* C8: evaluate_all returns one status per trade, in the order of the trades; the
\* status of a trade whose evaluation raised is neutral, and the status of every
\* other trade is what it is when nothing raises.
C8_FailureIsolated ==
  eval_obs # <<>> =>
    /\ Len(eval_out) = NTrades
    /\ \A i \in 1..NTrades :
         /\ eval_out[i].name = trades[i].name
         /\ EvalFails(i, eval_obs[i]) =>
              eval_out[i] = [name |-> trades[i].name, red_ratio |-> 0, has_red_gem |-> FALSE,
                             start_active |-> None, start_disabled |-> None,
                             template_score |-> None]
         /\ ~EvalFails(i, eval_obs[i]) => eval_out[i] = evaluate_all(Repaired(eval_obs))[i]

\* the first trade's evaluation raised, a later trade shows its threshold exceeded
C8_Witness ==
  /\ eval_obs # <<>>
  /\ EvalFails(1, eval_obs[1])
  /\ \E i \in 2..NTrades : ~EvalFails(i, eval_obs[i]) /\ eval_out[i].has_red_gem

\* C2 as stated: while the pause flag is cleared no worker evaluates or clicks,
\* wherever the worker was when pause() returned.
C2_NothingWhilePaused ==
  [][\A t \in Threads : (is_paused /\ is_paused') => Len(ev'[t]) <= Len(ev[t])]_vars

\* C2, amended: a worker that is at its poll points (the loop's top, the pause
\* check) while the pause flag is cleared begins no cycle: it neither evaluates nor
\* clicks in its next step.
C2_NoCycleBeginsWhilePaused ==
  [][\A t \in Threads :
       (is_paused /\ pc[t] \in {"top", "pause_check"}) =>
         (pc'[t] \notin CyclePcs /\ ev'[t] = ev[t])]_vars

\* pause() has returned and the worker, after a cycle, is at its pause check
C2_Witness ==
  /\ is_paused
  /\ ctl = "idle"
  /\ last_statuses # <<>>
  /\ thread # 0
  /\ pc[thread] = "pause_check"

\* C3 as stated: after two stop() calls in succession the loop is Stopped.
C3_StoppedAfterSecondStop ==
  (stops = 2 /\ ctl = "idle") =>
    /\ ~is_running
    /\ \A t \in Threads : pc[t] \notin CyclePcs

\* C3, amended: after stop() calls in succession the stop flag is set, and the loop
\* is Stopped unless the bounded join of the last one timed out.
C3_StopFlagAndBestEffortJoin ==
  (stops >= 1 /\ ctl = "idle") =>
    /\ stop_event
    /\ ~join_timed_out =>
         /\ ~is_running
         /\ \A t \in Threads : pc[t] \notin CyclePcs

\* two stop() calls in succession on a loop that had run: the worker has ended
C3_Witness ==
  /\ stops = 2
  /\ ctl = "idle"
  /\ ~join_timed_out
  /\ thread # 0
  /\ pc[thread] = "done"
  /\ last_statuses # <<>>

\* C9: a click call that raises ends the worker: the loop is not running, the
\* worker does nothing more, and neither timestamp moves in the step that raised.
C9_ClickFailureHalts ==
  /\ [](\A t \in Threads :
          (\E n \in DOMAIN ev[t] : ~ev[t][n].ok) =>
            /\ pc[t] = "crashed"
            /\ ~is_alive(t)
            /\ thread = t => ~is_running)
  /\ [][\A t \in Threads :
          (pc[t] # "crashed" /\ pc'[t] = "crashed") =>
            /\ ~ev'[t][Len(ev'[t])].ok
            /\ last_collect_ts' = last_collect_ts
            /\ last_refresh_ts' = last_refresh_ts]_vars
  /\ [][\A t \in Threads :
          pc[t] = "crashed" => (pc'[t] = "crashed" /\ Len(ev'[t]) <= Len(ev[t]))]_vars

\* the collect click raised when the collect interval had elapsed
C9_Witness ==
  \E t \in Threads :
    /\ pc[t] = "crashed"
    /\ thread = t
    /\ ev[t] = <<Event("collect", 0, FALSE)>>
    /\ timing.collect_interval > 0
    /\ now - last_collect_ts >= timing.collect_interval

\* C10: at most one worker is alive, and it is the engine's thread; start() on a
\* loop whose worker is alive creates no worker and changes neither flag.
C10_SingleWorker ==
  /\ [](\A t \in Threads : is_alive(t) => t = thread)
  /\ [][(ctl = "start" /\ ctl' = "idle" /\ is_running) =>
          UNCHANGED <<pc, thread, stop_event, pause_event>>]_vars

\* start() is entered on a paused loop whose worker, signalled to stop, is still in a cycle
C10_Witness ==
  /\ ctl = "start"
  /\ is_running
  /\ pc[thread] \in CyclePcs
  /\ is_paused
  /\ stop_event

\* C11: once stop() has set the stop flag, a worker that is at the top of its loop
\* goes nowhere but out of the loop; a worker leaves the loop from nowhere but the
\* top, so a cycle in flight runs through all its steps, clicks included; and with
\* every call of the cycle returning, each worker alive under a set stop flag,
\* running or paused, eventually terminates.
C11_StopEndsWorker ==
  /\ [][\A t \in Threads :
          /\ (pc[t] = "top" /\ stop_event) => pc'[t] \in {"top", "done"}
          /\ (pc'[t] = "done" /\ pc[t] # "done") => (pc[t] = "top" /\ stop_event)
          /\ (pc[t] \in CyclePcs /\ pc'[t] # pc[t]) => pc'[t] \in CyclePcs \cup {"top", "crashed"}]_vars
  /\ \A t \in Threads : (stop_event /\ is_alive(t)) ~> ~is_alive(t)

\* stop() came while the worker was paused or in a cycle, and the worker has left its loop
C11_Witness ==
  /\ stop_event
  /\ \E t \in Threads : pc[t] = "done"

\* the lists an evaluation cycle may publish, and the initial empty list
Published == {<<>>} \cup {r.statuses : r \in LifeResults}

\* C12: whatever the interleaving with the worker's publish, the list a reader got
\* from `statuses` is, but for what the reader itself put into it, the initial
\* empty list or the whole list of one evaluation cycle; and a step that changes
\* the reader's list leaves the list the engine holds as it was.
C12_StatusesSnapshot ==
  /\ [](reader_list \in Published \cup {Append(l, foreign_status) : l \in Published})
  /\ [][reader_list' # reader_list => last_statuses' = last_statuses]_vars

\* the reader has changed the list of a cycle, and the engine still holds that cycle's list
C12_Witness ==
  /\ Len(reader_list) = NTrades + 1
  /\ SubSeq(reader_list, 1, NTrades) = last_statuses

\* C13: the map an observer got from last_frames() is left as it is by the
\* worker's evaluations, and a step of the observer leaves the engine's frames
\* as they are.
C13_FramesSnapshot ==
  [][/\ (\E t \in Threads : pc[t] = "evaluate" /\ pc'[t] = "trades") => frames_view' = frames_view
     /\ pc' = pc => last_frames' = last_frames]_vars

\* C14: the rectangle _bounded_region returns lies inside the monitor, whatever
\* the region asked for.
C14_InsideMonitor ==
  fn_out.fn = "bounded_region" =>
    LET b == fn_out.bounded
        m == fn_in.monitor
    IN /\ b.left >= m.left
       /\ b.top >= m.top
       /\ b.left + b.width <= m.left + m.width
       /\ b.top + b.height <= m.top + m.height

\* C20: every call of _bounded_region returns, and the rectangle it returns is at
\* least one pixel wide and one pixel high, whatever the region asked for.
C20_AtLeastOnePixel ==
  fn_in.fn = "bounded_region" =>
    /\ fn_out.fn = "bounded_region"
    /\ fn_out.bounded.width >= 1
    /\ fn_out.bounded.height >= 1

\* a region right of the monitor and of no height, captured as one pixel
C20_Witness ==
  /\ fn_in.fn = "bounded_region"
  /\ fn_in.region.left >= fn_in.monitor.left + fn_in.monitor.width
  /\ fn_in.region.height <= 0
  /\ fn_out.bounded.width = 1
  /\ fn_out.bounded.height = 1

\* the maximum of the scores of the templates trade i names
max_of_scores(i, o) ==
  LET hasA == trades[i].start_template # None
      hasD == trades[i].start_gray_template # None
  IN IF hasA /\ hasD THEN Some(Max(o.act.max_val, o.dis.max_val))
     ELSE IF hasA THEN Some(o.act.max_val)
     ELSE IF hasD THEN Some(o.dis.max_val)
     ELSE None

\* C15: the template_score of a trade whose evaluation returns is the maximum of
\* the scores of the templates it names: of both, or the one score as it is, or
\* None where it names none.
C15_ScoreIsMax ==
  eval_obs # <<>> =>
    \A i \in 1..NTrades :
      ~EvalFails(i, eval_obs[i]) => eval_out[i].template_score = max_of_scores(i, eval_obs[i])

\* the call of match in fn_in finds its template: in the cache, or as an image at its path
C16_Loadable ==
  /\ fn_in.name \in DOMAIN templates
  /\ fn_in.cache[fn_in.name] # None \/ fn_in.file.image # None

\* the shape of the template that call works with
C16_Template ==
  IF fn_in.cache[fn_in.name] # None
  THEN (CHOOSE e \in fn_in.cache[fn_in.name] : TRUE).image
  ELSE CHOOSE sh \in fn_in.file.image : TRUE

C16_FrameSmaller ==
  \/ fn_in.frame.shape[1] < C16_Template[1]
  \/ fn_in.frame.shape[2] < C16_Template[2]

\* C16: a call of match whose template loads, on a frame with fewer rows or fewer
\* columns than the template, raises nothing and returns (False, 0.0), and after
\* it the template is in the cache with its threshold.
C16_SmallFrameNoMatch ==
  (fn_in.fn = "match" /\ C16_Loadable /\ C16_FrameSmaller) =>
    /\ ~fn_out.raised
    /\ fn_out.value = <<FALSE, 0>>
    /\ tm_cache[fn_in.name] = Some([image |-> C16_Template, threshold |-> templates[fn_in.name]])

\* the first call for a template, on a frame too low for it though wide enough
C16_Witness ==
  /\ fn_in.fn = "match"
  /\ C16_Loadable
  /\ fn_in.cache[fn_in.name] = None
  /\ fn_in.frame.shape[1] < C16_Template[1]
  /\ fn_in.frame.shape[2] >= C16_Template[2]
  /\ fn_in.frame.max_val = 1
  /\ fn_out.value = <<FALSE, 0>>
  /\ tm_cache[fn_in.name] # None

\* x >= y, of two ratios
RatioGeq(x, y) == x.num * y.den >= y.num * x.den

\* C17: on every image, the ratio under the ranges [A, B] is at least the ratio
\* under [A] alone and under [B] alone and at most 1, and equals both where the
\* two ranges hold the same pixels.
C17_UnionOfRanges ==
  fn_in.fn = "red_ratio" =>
    /\ ~fn_out.both.raised /\ ~fn_out.a.raised /\ ~fn_out.b.raised
    /\ RatioGeq(fn_out.both.ratio, fn_out.a.ratio)
    /\ RatioGeq(fn_out.both.ratio, fn_out.b.ratio)
    /\ RatioGeq(Ratio(1, 1), fn_out.both.ratio)
    /\ mask_of(fn_in.image, <<fn_in.a>>) = mask_of(fn_in.image, <<fn_in.b>>) =>
         /\ fn_out.both.ratio = fn_out.a.ratio
         /\ fn_out.both.ratio = fn_out.b.ratio

\* C18: of the image without pixels red_ratio returns 0.0 and raises nothing.
C18_EmptyImageZero ==
  (fn_in.fn = "red_ratio" /\ fn_in.image = <<>>) =>
    /\ ~fn_out.both.raised
    /\ fn_out.both.ratio.num = 0

\* C19: a call of pause() or resume() changes the pause flag and nothing else of
\* the engine: the worker thread and where it is, the stop flag, the two
\* timestamps and the published statuses stay as they are, so a running loop is
\* still running after it and a stopped loop still stopped.
C19_PauseResumeFrame ==
  [][(ctl \in {"pause", "resume"} /\ ctl' = "idle") =>
       /\ pause_event' = (ctl = "resume")
       /\ UNCHANGED <<thread, pc, stop_event, last_collect_ts, last_refresh_ts, last_statuses>>
       /\ is_running' = is_running]_vars

\* paused after a cycle was published, the worker alive
C19_Witness ==
  /\ ctl = "idle"
  /\ is_paused
  /\ is_running
  /\ last_statuses # <<>>

\* C21 as stated: in the status evaluate_trade returns, the active flag is set iff
\* the trade names an active template, the disabled flag iff it names a grayed one.
C21_FlagsIffDefined ==
  (fn_in.fn = "evaluate_trade" /\ ~fn_out.raised) =>
    /\ fn_out.status.start_active # None <=> fn_in.trade.start_template # None
    /\ fn_out.status.start_disabled # None <=> fn_in.trade.start_gray_template # None

\* C21, amended: in the status evaluate_trade returns, each flag is set, to true
\* or false, iff the trade names that template and the matcher has any template
\* configured; otherwise the flag is unset, never false.
C21_FlagsIffDefinedAndConfigured ==
  (fn_in.fn = "evaluate_trade" /\ ~fn_out.raised) =>
    LET configured == DOMAIN fn_in.templates # {}
        st == fn_out.status
    IN /\ (fn_in.trade.start_template # None /\ configured) => st.start_active \in {Some(TRUE), Some(FALSE)}
       /\ ~(fn_in.trade.start_template # None /\ configured) => st.start_active = None
       /\ (fn_in.trade.start_gray_template # None /\ configured) => st.start_disabled \in {Some(TRUE), Some(FALSE)}
       /\ ~(fn_in.trade.start_gray_template # None /\ configured) => st.start_disabled = None

\* a trade that names only the active template, which does not match
C21_Witness ==
  /\ fn_in.fn = "evaluate_trade"
  /\ ~fn_out.raised
  /\ fn_in.trade.start_template # None
  /\ fn_in.trade.start_gray_template = None
  /\ fn_out.status.start_active = Some(FALSE)
  /\ fn_out.status.start_disabled = None

\* the call of match in fn_in cannot load its template: the name is not
\* configured, or it is not cached and its file is missing or undecodable
C22_LoadFails ==
  \/ fn_in.name \notin DOMAIN templates
  \/ fn_in.cache[fn_in.name] = None /\ fn_in.file.image = None

\* C22: a call of match whose template load fails raises and leaves the cache as
\* it was; a later call for the same name with an image at its path then loads
\* and caches it; and an entry that is in the cache never changes.
C22_LoadFailureAndCache ==
  /\ []((fn_in.fn = "match" /\ C22_LoadFails) => (fn_out.raised /\ tm_cache = fn_in.cache))
  /\ [][(/\ fn_in.fn = "match" /\ C22_LoadFails /\ fn_in.name \in DOMAIN templates
          /\ fn_in' # fn_in /\ fn_in'.name = fn_in.name /\ fn_in'.file.image # None)
         => (~fn_out'.raised /\ tm_cache'[fn_in.name] # None)]_vars
  /\ [][\A n \in DOMAIN templates : tm_cache[n] # None => tm_cache'[n] = tm_cache[n]]_vars

\* the file of a configured template could not be decoded: the call raised and
\* nothing is cached under the name
C22_Witness ==
  /\ fn_in.fn = "match"
  /\ fn_in.name \in DOMAIN templates
  /\ fn_in.file.exists
  /\ fn_in.file.image = None
  /\ fn_out.raised
  /\ fn_out.error = "RuntimeError"
  /\ tm_cache[fn_in.name] = None

\* worker t's step is a click of kind k that returned
ClickReturned(t, k) ==
  /\ Len(ev'[t]) = Len(ev[t]) + 1
  /\ ev'[t][Len(ev'[t])] = Event(k, 0, TRUE)

\* C23: with the clock never going back, the last-collect and the last-refresh
\* timestamps never decrease; each changes only in the step of a cycle in which
\* its click was issued and returned; no step of start(), stop(), pause() or
\* resume() changes them.
C23_TimestampsMonotone ==
  [][/\ last_collect_ts' >= last_collect_ts
     /\ last_refresh_ts' >= last_refresh_ts
     /\ last_collect_ts' # last_collect_ts =>
          \E t \in Threads : pc[t] = "collect" /\ ClickReturned(t, "collect")
     /\ last_refresh_ts' # last_refresh_ts =>
          \E t \in Threads : pc[t] = "refresh" /\ ClickReturned(t, "refresh")
     /\ ctl' # ctl => UNCHANGED <<last_collect_ts, last_refresh_ts>>]_vars

\* a second worker, started after a stop, with both timestamps kept from the first
C23_Witness ==
  /\ thread = 2
  /\ pc[1] = "done"
  /\ pc[2] = "top"
  /\ last_collect_ts > 0
  /\ last_refresh_ts > 0

\* the place of an event's kind in a cycle
C24_Rank(e) ==
  CASE e.k = "eval" -> 0
    [] e.k = "publish" -> 1
    [] e.k = "trade" -> 2
    [] e.k = "collect" -> 3
    [] e.k = "refresh" -> 4

\* C24: in the log of a worker's cycle, in flight or complete, the publish of the
\* cycle's statuses comes before every click, trade clicks come in the order of
\* the trade definitions, every trade click before the collect click, and the
\* collect click before the refresh click.
C24_EventOrder ==
  \A t \in Threads : pc[t] # "crashed" =>
    /\ \A m, n \in DOMAIN ev[t] : m < n =>
         /\ C24_Rank(ev[t][m]) <= C24_Rank(ev[t][n])
         /\ (ev[t][m].k = ev[t][n].k) => (ev[t][m].k = "trade" /\ ev[t][m].i < ev[t][n].i)
    /\ (\E n \in DOMAIN ev[t] : C24_Rank(ev[t][n]) >= 2) =>
         (\E m \in DOMAIN ev[t] : ev[t][m].k = "publish") /\ last_statuses = statuses[t]

\* a full pass with the click of each of the first two trades and the collect click
C24_Witness ==
  \E t \in Threads :
    /\ CycleDone(t)
    /\ Calls(ev[t], "trade", 1) # {}
    /\ Calls(ev[t], "trade", 2) # {}
    /\ Calls(ev[t], "collect", 0) # {}

\* C25: when a call of start() returns, a worker is alive and the stop flag is
\* clear, also when the call follows a stop() whose join timed out.
C25_RunningAfterStart ==
  [][(ctl = "start" /\ ctl' = "idle") => (is_running' /\ ~stop_event')]_vars

\* C26: when both toggle_pause calls have returned, the paused state is what it
\* was before the first of them, and the two calls returned opposite values
\* (no other call on the engine is made between the first read and the last return).
C26_ToggleAtomic ==
  (\A k \in Togglers : toggle.calls[k].pc = "done") =>
    /\ Some(is_paused) = toggle.before
    /\ toggle.calls["hotkey"].ret # toggle.calls["ui"].ret

\* the step of a reload_config call whose load raises
LoadRaised == controller'.reloads = controller.reloads + 1 /\ controller'.result = "raised"

\* the step of a reload_config call that creates the new engine
EngineCreated == controller.phase = "shutdown" /\ controller'.phase = "idle"

\* a failed load leaves the controller's engine, configuration and listeners, the
\* engine's state and its worker as they were
C27_FailedLoadKeeps ==
  LoadRaised =>
    /\ controller'.engine = controller.engine
    /\ controller'.config = controller.config
    /\ controller'.configs = controller.configs
    /\ controller'.hotkeys = controller.hotkeys
    /\ UNCHANGED <<timing, engine_vars, worker_vars>>
    /\ is_running => is_running'

\* the engine that a successful reload creates is Stopped, holds the loaded
\* configuration as a new object, and no earlier configuration object has changed
C27_NewEngineStopped ==
  EngineCreated =>
    /\ controller'.engine # controller.engine
    /\ thread' = 0 /\ ~is_running' /\ ~stop_event' /\ pause_event'
    /\ controller'.config \notin DOMAIN controller.configs
    /\ Some(controller'.configs[controller'.config]) = controller.loaded
    /\ timing' = controller'.configs[controller'.config]
    /\ \A i \in DOMAIN controller.configs : controller'.configs[i] = controller.configs[i]

\* C27 as stated: a failed load leaves the controller's engine, configuration and
\* hotkey listeners unchanged and a running engine running; after a successful
\* load no worker of the old engine is alive when the new engine is created, the
\* new engine is Stopped, and no configuration object is modified in place.
C27_ReloadStopsOldEngine ==
  [][/\ C27_FailedLoadKeeps
     /\ C27_NewEngineStopped
     /\ EngineCreated => (stop_event /\ ~is_running)]_vars

\* C27, amended: as above, except that when the new engine is created the old
\* engine's stop() has returned with the stop flag set, and a worker of the old
\* engine is alive only if the bounded join of that stop() timed out.
C27_ReloadStopsOrTimesOut ==
  [][/\ C27_FailedLoadKeeps
     /\ C27_NewEngineStopped
     /\ EngineCreated => (stop_event /\ (is_running => join_timed_out))]_vars

\* a load has failed on the second engine while it was running, and the worker of
\* the first engine, which outlived the join, is still alive
C27_Witness ==
  /\ controller.result = "raised"
  /\ controller.engine = 2
  /\ is_running
  /\ \E t \in Threads : pc[t] = "orphan"

====
